---- MODULE Spec2Model ----
(***************************************************************************)
(* Model of handleWs.ts of duskpoet/effect-programming-2: the blocking     *)
(* Channel, the effect driver handleWs and the conversation scripts it     *)
(* runs.  One connection is one WebSocket handed to handleWs.               *)
(*                                                                         *)
(* Strings that the program inspects (inbound messages, `current`) are     *)
(* sequences of one-character strings, so that toLowerCase, includes and   *)
(* Number are computed rather than assumed.  Strings that the program only *)
(* passes on (the texts of say effects) are TLA+ strings.                  *)
(***************************************************************************)
EXTENDS Integers, Sequences, FiniteSets, TLC

\* ------------------------------------------------------------------------
\* Bounds of the model
\* ------------------------------------------------------------------------

\* number of put/take calls made on one Channel by the channel harness
MaxOps == 5

\* number of inbound events the transport produces on one connection
MaxEvents == 3

\* number of inbound events on both connections together, when two run
MaxTwoEvents == 4

\* ------------------------------------------------------------------------
\* Values
\* ------------------------------------------------------------------------

\* the connections (sockets) of the model
Conns == {1, 2}

\* the inbound text messages the transport may deliver
Msgs ==
  { <<"T", "i", "m", "e">>,
    <<"s", "u", "m">>,
    <<"3">>,
    <<"4">>,
    <<"n", "o">> }

\* the values the channel harness puts
Vals == { <<"3">>, <<"4">>, <<"n", "o">> }

\* `let current: string = ""`
EmptyString == <<>>

\* a promise returned by take(): pending, or resolved with a value
PendingPromise == [state |-> "pending"]
ResolvedPromise(v) == [state |-> "resolved", value |-> v]

IsPending(p) == p.state = "pending"

\* ------------------------------------------------------------------------
\* Channel (pure part).  A channel state is a record
\*   takers  : the resolve functions of the pending takes, as promise numbers
\*   buffer  : the values put and not yet taken
\*   results : the promises returned by take(), in call order
\*   log     : history of the pairs <<promise number, value>> resolved by
\*             callTakers, in resolution order
\* ------------------------------------------------------------------------

NewChannel == [takers |-> <<>>, buffer |-> <<>>, results |-> <<>>, log |-> <<>>]

\* callTakers with takers.pop() for takers.shift()
CallTakersBodyLastTaker(ch) ==
  LET taker == ch.takers[Len(ch.takers)]
      payload == Head(ch.buffer)
  IN  [takers  |-> SubSeq(ch.takers, 1, Len(ch.takers) - 1),
       buffer  |-> Tail(ch.buffer),
       results |-> [ch.results EXCEPT ![taker] = ResolvedPromise(payload)],
       log     |-> Append(ch.log, <<taker, payload>>)]

\* callTakers with buffer.pop() for buffer.shift()
CallTakersBodyLastValue(ch) ==
  LET taker == Head(ch.takers)
      payload == ch.buffer[Len(ch.buffer)]
  IN  [takers  |-> Tail(ch.takers),
       buffer  |-> SubSeq(ch.buffer, 1, Len(ch.buffer) - 1),
       results |-> [ch.results EXCEPT ![taker] = ResolvedPromise(payload)],
       log     |-> Append(ch.log, <<taker, payload>>)]

\* callTakers with this.buffer[0] for this.buffer.shift()
CallTakersBodyKeepValue(ch) ==
  LET taker == Head(ch.takers)
      payload == Head(ch.buffer)
  IN  [takers  |-> Tail(ch.takers),
       buffer  |-> ch.buffer,
       results |-> [ch.results EXCEPT ![taker] = ResolvedPromise(payload)],
       log     |-> Append(ch.log, <<taker, payload>>)]

\* one iteration of the loop body of callTakers
CallTakersBody(ch) ==
  LET taker == Head(ch.takers)
      payload == Head(ch.buffer)
  IN  [takers  |-> Tail(ch.takers),
       buffer  |-> Tail(ch.buffer),
       results |-> [ch.results EXCEPT ![taker] = ResolvedPromise(payload)],
       log     |-> Append(ch.log, <<taker, payload>>)]

\* callTakers with `this.buffer.length > 1` as its loop condition
RECURSIVE CallTakersOffByOne(_)
CallTakersOffByOne(ch) ==
  IF Len(ch.takers) > 0 /\ Len(ch.buffer) > 1
    THEN CallTakersOffByOne(CallTakersBody(ch))
    ELSE ch

RECURSIVE CallTakers(_)
CallTakers(ch) ==
  IF Len(ch.takers) > 0 /\ Len(ch.buffer) > 0
    THEN CallTakers(CallTakersBody(ch))
    ELSE ch

\* take(): the new promise's resolve function is pushed, then callTakers
TakePush(ch) ==
  [ch EXCEPT !.results = Append(ch.results, PendingPromise),
             !.takers  = Append(ch.takers, Len(ch.results) + 1)]

\* take() without its call of callTakers
TakeNoCall(ch) == TakePush(ch)

Take(ch) == CallTakers(TakePush(ch))

\* put(message)
PutPush(ch, message) == [ch EXCEPT !.buffer = Append(ch.buffer, message)]

\* put() without its call of callTakers
PutNoCall(ch, message) == PutPush(ch, message)

Put(ch, message) == CallTakers(PutPush(ch, message))

\* ------------------------------------------------------------------------
\* Strings: what the scripts compute on inbound messages
\* ------------------------------------------------------------------------

UpperCase == <<"A", "B", "C", "D", "E", "F", "G", "H", "I", "J", "K", "L", "M",
               "N", "O", "P", "Q", "R", "S", "T", "U", "V", "W", "X", "Y", "Z">>
LowerCase == <<"a", "b", "c", "d", "e", "f", "g", "h", "i", "j", "k", "l", "m",
               "n", "o", "p", "q", "r", "s", "t", "u", "v", "w", "x", "y", "z">>

ToLowerChar(ch) ==
  IF \E i \in 1..26 : UpperCase[i] = ch
    THEN LowerCase[CHOOSE i \in 1..26 : UpperCase[i] = ch]
    ELSE ch

\* String.prototype.toLowerCase
ToLowerCase(s) == [i \in 1..Len(s) |-> ToLowerChar(s[i])]

\* String.prototype.includes
Includes(s, sub) ==
  \E i \in 0..(Len(s) - Len(sub)) : SubSeq(s, i + 1, i + Len(sub)) = sub

Digits == <<"0", "1", "2", "3", "4", "5", "6", "7", "8", "9">>

IsDigit(ch) == \E i \in 1..10 : Digits[i] = ch

DigitVal(ch) == (CHOOSE i \in 1..10 : Digits[i] = ch) - 1

RECURSIVE DecimalVal(_)
DecimalVal(s) ==
  IF s = <<>> THEN 0
  ELSE 10 * DecimalVal(SubSeq(s, 1, Len(s) - 1)) + DigitVal(s[Len(s)])

RECURSIVE TrimLeft(_)
TrimLeft(s) == IF s # <<>> /\ Head(s) = " " THEN TrimLeft(Tail(s)) ELSE s

RECURSIVE TrimRight(_)
TrimRight(s) ==
  IF s # <<>> /\ s[Len(s)] = " " THEN TrimRight(SubSeq(s, 1, Len(s) - 1)) ELSE s

NaN == [nan |-> TRUE, val |-> 0]

\* Number(message), on the strings made of letters, spaces, signs and
\* decimal digits (no fraction, exponent, radix prefix or "Infinity")
Number(message) ==
  LET t == TrimRight(TrimLeft(message))
      signed == t # <<>> /\ Head(t) \in {"+", "-"}
      body == IF signed THEN Tail(t) ELSE t
  IN  IF t = <<>> THEN [nan |-> FALSE, val |-> 0]
      ELSE IF body # <<>> /\ \A i \in 1..Len(body) : IsDigit(body[i])
        THEN [nan |-> FALSE,
              val |-> IF signed /\ Head(t) = "-" THEN 0 - DecimalVal(body)
                                                 ELSE DecimalVal(body)]
        ELSE NaN

\* ------------------------------------------------------------------------
\* Effects and scripts
\* ------------------------------------------------------------------------

say(text) == [type |-> "say", text |-> text]
listen == [type |-> "listen"]

\* the value of a generator result that carries no effect
undefined == [type |-> "undefined"]

\* an effect of a kind the driver's switch has no case for
otherEffect == [type |-> "other"]

\* format(new Date(), "HH:mm:ss") at the moments the script may run
Times == {"10:00:00", "10:00:01"}

\* a generator result { value, done } with the generator's next state
IterResult(it, value, isDone) == [iter |-> it, value |-> value, done |-> isDone]

\* a value of type number, where it has to be told from the other values
NumberValue(n) == [type |-> "number", val |-> n]

\* dialog(): the generator object before its first next(). `at` names the
\* yield the generator is suspended at, `result` is sumSubDialog's local,
\* `delegated` the value of the last `yield* sumSubDialog()` expression
dialog ==
  [kind |-> "dialog", at |-> "start", result |-> 0, delegated |-> undefined]

\* sumSubDialog with `result = num` for `result += num`
sumSubDialogNextAssign(it, input, now) ==
  CASE it.at = "sumAsk" ->
         IterResult([it EXCEPT !.at = "sumListen", !.result = 0], listen, FALSE)
    [] it.at = "sumListen" ->
         LET num == Number(input)
         IN  IF num.nan
               THEN IterResult([it EXCEPT !.at = "sumResult"],
                               say("The result is: " \o ToString(it.result)),
                               FALSE)
               ELSE IterResult([it EXCEPT !.at = "gotIt", !.result = num.val],
                               say("Got it!"), FALSE)
    [] it.at = "gotIt" ->
         IterResult([it EXCEPT !.at = "sumListen"], listen, FALSE)
    [] it.at = "sumResult" ->
         IterResult(it, undefined, TRUE)

\* sumSubDialog ending with `return result`
sumSubDialogNextReturnsResult(it, input, now) ==
  CASE it.at = "sumAsk" ->
         IterResult([it EXCEPT !.at = "sumListen", !.result = 0], listen, FALSE)
    [] it.at = "sumListen" ->
         LET num == Number(input)
         IN  IF num.nan
               THEN IterResult([it EXCEPT !.at = "sumResult"],
                               say("The result is: " \o ToString(it.result)),
                               FALSE)
               ELSE IterResult([it EXCEPT !.at = "gotIt",
                                          !.result = it.result + num.val],
                               say("Got it!"), FALSE)
    [] it.at = "gotIt" ->
         IterResult([it EXCEPT !.at = "sumListen"], listen, FALSE)
    [] it.at = "sumResult" ->
         IterResult(it, NumberValue(it.result), TRUE)

\* sumSubDialog without `yield say("Got it!")` in its loop
sumSubDialogNextNoGotIt(it, input, now) ==
  CASE it.at = "sumAsk" ->
         IterResult([it EXCEPT !.at = "sumListen", !.result = 0], listen, FALSE)
    [] it.at = "sumListen" ->
         LET num == Number(input)
         IN  IF num.nan
               THEN IterResult([it EXCEPT !.at = "sumResult"],
                               say("The result is: " \o ToString(it.result)),
                               FALSE)
               ELSE IterResult([it EXCEPT !.result = it.result + num.val],
                               listen, FALSE)
    [] it.at = "gotIt" ->
         IterResult([it EXCEPT !.at = "sumListen"], listen, FALSE)
    [] it.at = "sumResult" ->
         IterResult(it, undefined, TRUE)

\* the body of sumSubDialog resumed at one of its yields
sumSubDialogNext(it, input, now) ==
  CASE it.at = "sumAsk" ->
         \* let result = 0; let message = yield listen();
         IterResult([it EXCEPT !.at = "sumListen", !.result = 0], listen, FALSE)
    [] it.at = "sumListen" ->
         LET num == Number(input)
         IN  IF num.nan
               THEN IterResult([it EXCEPT !.at = "sumResult"],
                               say("The result is: " \o ToString(it.result)),
                               FALSE)
               ELSE IterResult([it EXCEPT !.at = "gotIt",
                                          !.result = it.result + num.val],
                               say("Got it!"), FALSE)
    [] it.at = "gotIt" ->
         IterResult([it EXCEPT !.at = "sumListen"], listen, FALSE)
    [] it.at = "sumResult" ->
         \* the function body ends without a return statement
         IterResult(it, undefined, TRUE)

\* the if / else if / else of dialog's loop body on the message received
dialogDispatch(it, message, now) ==
  IF Includes(ToLowerCase(message), <<"t", "i", "m", "e">>)
    THEN IterResult([it EXCEPT !.at = "replied"], say("It is " \o now), FALSE)
  ELSE IF Includes(ToLowerCase(message), <<"s", "u", "m">>)
    THEN IterResult([it EXCEPT !.at = "sumAsk"],
                    say("Okay, what numbers should we sum?"), FALSE)
  ELSE IterResult([it EXCEPT !.at = "replied"],
                  say("I don't know what to say!"), FALSE)

\* dialog with the "sum" branch tested before the "time" branch
dialogNextSumFirst(it, input, now) ==
  CASE it.at = "start" ->
         IterResult([it EXCEPT !.at = "welcome"],
                    say("Welcome to \"Do what I say BOT\""), FALSE)
    [] it.at \in {"welcome", "replied"} ->
         IterResult([it EXCEPT !.at = "listen"], listen, FALSE)
    [] it.at = "listen" ->
         IF Includes(ToLowerCase(input), <<"s", "u", "m">>)
           THEN IterResult([it EXCEPT !.at = "sumAsk"],
                           say("Okay, what numbers should we sum?"), FALSE)
         ELSE IF Includes(ToLowerCase(input), <<"t", "i", "m", "e">>)
           THEN IterResult([it EXCEPT !.at = "replied"],
                           say("It is " \o now), FALSE)
         ELSE IterResult([it EXCEPT !.at = "replied"],
                         say("I don't know what to say!"), FALSE)
    [] OTHER ->
         LET r == sumSubDialogNext(it, input, now)
         IN  IF r.done
               THEN IterResult([it EXCEPT !.at = "listen",
                                          !.delegated = r.value],
                               listen, FALSE)
               ELSE r

\* dialog whose loop body goes on with the message that ended the
\* sub-dialogue, without listening again
dialogNextRedispatch(it, input, now) ==
  CASE it.at = "start" ->
         IterResult([it EXCEPT !.at = "welcome"],
                    say("Welcome to \"Do what I say BOT\""), FALSE)
    [] it.at \in {"welcome", "replied"} ->
         IterResult([it EXCEPT !.at = "listen"], listen, FALSE)
    [] it.at = "listen" -> dialogDispatch(it, input, now)
    [] OTHER ->
         LET r == sumSubDialogNext(it, input, now)
         IN  IF r.done
               THEN dialogDispatch([it EXCEPT !.delegated = r.value], input, now)
               ELSE r

\* dialog's generator resumed with next(input)
dialogNext(it, input, now) ==
  CASE it.at = "start" ->
         IterResult([it EXCEPT !.at = "welcome"],
                    say("Welcome to \"Do what I say BOT\""), FALSE)
    [] it.at \in {"welcome", "replied"} ->
         \* top of while (true): const message = yield listen();
         IterResult([it EXCEPT !.at = "listen"], listen, FALSE)
    [] it.at = "listen" -> dialogDispatch(it, input, now)
    [] OTHER ->
         \* yield* sumSubDialog(): the sub-generator's effects are yielded
         \* as they are; when it is done its return value is the value of
         \* the yield* expression (dropped) and the loop listens again
         LET r == sumSubDialogNext(it, input, now)
         IN  IF r.done
               THEN IterResult([it EXCEPT !.at = "listen",
                                          !.delegated = r.value],
                               listen, FALSE)
               ELSE r

\* A generator given by the effects it yields and the value it returns,
\* whatever it is resumed with: the iterator protocol handleWs drives.
Prog(body, ret) == [kind |-> "prog", pos |-> 0, body |-> body, ret |-> ret]

ProgNext(it, input) ==
  IF it.pos < Len(it.body)
    THEN IterResult([it EXCEPT !.pos = it.pos + 1], it.body[it.pos + 1], FALSE)
  ELSE IF it.pos = Len(it.body)
    THEN IterResult([it EXCEPT !.pos = it.pos + 1], it.ret, TRUE)
  ELSE IterResult(it, undefined, TRUE)

\* iter.next(current)
IterNext(it, input, now) ==
  IF it.kind = "dialog" THEN dialogNext(it, input, now) ELSE ProgNext(it, input)

\* the scripts a connection may run: the reference dialog, and generators
\* that finish, return an effect, yield no effect or yield an unknown kind
Scripts ==
  { dialog,
    Prog(<<say("a"), listen, say("b"), say("a")>>, undefined),
    Prog(<<listen>>, say("c")),
    Prog(<<say("a")>>, listen),
    Prog(<<otherEffect, say("b"), listen, listen>>, otherEffect),
    Prog(<<say("a"), undefined, say("b")>>, undefined) }

\* the inbound events of a socket: a text frame, a binary frame, closure
TextEvent(m) == [kind |-> "text", data |-> m]
BinaryEvent == [kind |-> "binary"]
CloseEvent == [kind |-> "close"]

SockEvents == {TextEvent(m) : m \in Msgs} \cup {BinaryEvent, CloseEvent}

\* ------------------------------------------------------------------------
\* State
\* ------------------------------------------------------------------------

VARIABLES
  clients,     \* the connections that exist in this run
  takers,      \* takers[c]  : Channel.takers of connection c
  buffer,      \* buffer[c]  : Channel.buffer of connection c
  results,     \* results[c] : the promises returned by take(), in call order
  resolveLog,  \* history: what callTakers resolved, in order
  putLog,      \* history: the values put, in order
  pc,          \* pc[c] : where handleWs(c) stands
               \*   "idle"   not called yet
               \*   "next"   at the top of the loop, before iter.next(current)
               \*   "switch" holding an effect, before the switch
               \*   "await"  suspended in `await incoming.take()`
               \*   "closed" after the loop
               \*   "failed" left by an exception thrown in the loop
               \*   "exited" stopped with the process
  current,     \* handleWs's `current`
  iter,        \* handleWs's `iter`
  effect,      \* the `value` of the last iter.next(current)
  done,        \* the `done` of the last iter.next(current)
  listening,   \* the for-await loop of Channel.listen is running
  events,      \* history: the events the socket produced, in order
  sendErrors,  \* history: the number of sock.send calls that threw
  sent,        \* history: the texts passed to sock.send, in order
  fedLog,      \* history: the arguments of iter.next, in order, each with
               \*          the kind of the effect interpreted before it
  yielded      \* history: the effects the script produced, in order

chanVars == <<takers, buffer, results, resolveLog, putLog>>

driverVars == <<pc, current, iter, effect, done, sent, fedLog, yielded>>

sockVars == <<listening, events, sendErrors>>

vars == <<clients, chanVars, driverVars, sockVars>>

\* the channel of connection c as a record
Chan(c) ==
  [takers |-> takers[c], buffer |-> buffer[c],
   results |-> results[c], log |-> resolveLog[c]]

SetChan(c, ch) ==
  /\ takers' = [takers EXCEPT ![c] = ch.takers]
  /\ buffer' = [buffer EXCEPT ![c] = ch.buffer]
  /\ results' = [results EXCEPT ![c] = ch.results]
  /\ resolveLog' = [resolveLog EXCEPT ![c] = ch.log]

InitChannels ==
  /\ takers = [c \in Conns |-> NewChannel.takers]
  /\ buffer = [c \in Conns |-> NewChannel.buffer]
  /\ results = [c \in Conns |-> NewChannel.results]
  /\ resolveLog = [c \in Conns |-> NewChannel.log]
  /\ putLog = [c \in Conns |-> <<>>]

InitDrivers ==
  /\ pc = [c \in Conns |-> "idle"]
  /\ current = [c \in Conns |-> EmptyString]
  /\ iter = [c \in Conns |-> dialog]
  /\ effect = [c \in Conns |-> undefined]
  /\ done = [c \in Conns |-> FALSE]
  /\ sent = [c \in Conns |-> <<>>]
  /\ fedLog = [c \in Conns |-> <<>>]
  /\ yielded = [c \in Conns |-> <<>>]

InitSocks ==
  /\ listening = [c \in Conns |-> FALSE]
  /\ events = [c \in Conns |-> <<>>]
  /\ sendErrors = [c \in Conns |-> 0]

\* ------------------------------------------------------------------------
\* Channel harness: put and take called in any order on one Channel
\* ------------------------------------------------------------------------

OpCount(c) == Len(putLog[c]) + Len(results[c])

ChPut(c, v) ==
  /\ OpCount(c) < MaxOps
  /\ SetChan(c, Put(Chan(c), v))
  /\ putLog' = [putLog EXCEPT ![c] = Append(@, v)]
  /\ UNCHANGED <<clients, driverVars, sockVars>>

ChTake(c) ==
  /\ OpCount(c) < MaxOps
  /\ SetChan(c, Take(Chan(c)))
  /\ UNCHANGED <<clients, putLog, driverVars, sockVars>>

InitChannel ==
  /\ clients = {1}
  /\ InitChannels
  /\ InitDrivers
  /\ InitSocks

NextChannel ==
  \/ \E c \in clients, v \in Vals : ChPut(c, v)
  \/ \E c \in clients : ChTake(c)

SpecChannel == InitChannel /\ [][NextChannel]_vars

\* ------------------------------------------------------------------------
\* The forwarding task: Channel.listen(sock)
\* ------------------------------------------------------------------------

\* Channel.listen without `if (typeof event === "string")`: every frame
\* that carries data is put
ChannelListenNoTypeCheck(c, ev) ==
  /\ listening[c]
  /\ Len(events[c]) < MaxEvents
  /\ events' = [events EXCEPT ![c] = Append(@, ev)]
  /\ listening' = [listening EXCEPT ![c] = (ev.kind # "close")]
  /\ IF ev.kind # "close"
       THEN LET data == IF ev.kind = "text" THEN ev.data ELSE <<"?">>
            IN  /\ SetChan(c, Put(Chan(c), data))
                /\ putLog' = [putLog EXCEPT ![c] = Append(@, data)]
       ELSE UNCHANGED chanVars
  /\ UNCHANGED <<clients, driverVars, sendErrors>>

\* Channel.listen that wakes the pending take with "" when the socket
\* closes
ChannelListenCloseResolves(c, ev) ==
  /\ listening[c]
  /\ Len(events[c]) < MaxEvents
  /\ events' = [events EXCEPT ![c] = Append(@, ev)]
  /\ listening' = [listening EXCEPT ![c] = (ev.kind # "close")]
  /\ IF ev.kind = "text"
       THEN /\ SetChan(c, Put(Chan(c), ev.data))
            /\ putLog' = [putLog EXCEPT ![c] = Append(@, ev.data)]
     ELSE IF ev.kind = "close" /\ takers[c] # <<>>
       THEN /\ SetChan(c, Put(Chan(c), EmptyString))
            /\ UNCHANGED putLog
     ELSE UNCHANGED chanVars
  /\ UNCHANGED <<clients, driverVars, sendErrors>>

\* one turn of `for await (const event of sock)`: the socket produces ev
ChannelListen(c, ev) ==
  /\ listening[c]
  /\ Len(events[c]) < MaxEvents
  /\ events' = [events EXCEPT ![c] = Append(@, ev)]
  /\ listening' = [listening EXCEPT ![c] = (ev.kind # "close")]
  /\ IF ev.kind = "text"
       THEN /\ SetChan(c, Put(Chan(c), ev.data))
            /\ putLog' = [putLog EXCEPT ![c] = Append(@, ev.data)]
       ELSE UNCHANGED chanVars
  /\ UNCHANGED <<clients, driverVars, sendErrors>>

\* ------------------------------------------------------------------------
\* The effect driver: handleWs(sock)
\* ------------------------------------------------------------------------

\* the promise the driver awaits: the one its last take() returned
Awaited(c) == results[c][Len(results[c])]

\* the loop without `if (done) break;`
AfterEffectIgnoreDone(isDone) == "next"

\* `if (done) break;` at the end of the loop body
AfterEffect(isDone) == IF isDone THEN "closed" ELSE "next"

\* entry of handleWs up to the loop: the channel, the forwarding task,
\* `current` and the script
HandleWs(c, script) ==
  /\ pc[c] = "idle"
  /\ SetChan(c, NewChannel)
  /\ listening' = [listening EXCEPT ![c] = TRUE]
  /\ current' = [current EXCEPT ![c] = EmptyString]
  /\ iter' = [iter EXCEPT ![c] = script]
  /\ pc' = [pc EXCEPT ![c] = "next"]
  /\ UNCHANGED <<clients, putLog, effect, done, sent, fedLog, yielded, events,
                 sendErrors>>

\* const { value: effect, done } = iter.next(current); if (!effect) break;
Advance(c, now) ==
  /\ pc[c] = "next"
  /\ LET r == IterNext(iter[c], current[c], now)
     IN  /\ iter' = [iter EXCEPT ![c] = r.iter]
         /\ effect' = [effect EXCEPT ![c] = r.value]
         /\ done' = [done EXCEPT ![c] = r.done]
         /\ fedLog' = [fedLog EXCEPT ![c] =
                         Append(@, [input |-> current[c],
                                    after |-> effect[c].type])]
         /\ yielded' = [yielded EXCEPT ![c] =
                          IF r.value = undefined THEN @ ELSE Append(@, r.value)]
         /\ pc' = [pc EXCEPT ![c] =
                     IF r.value = undefined THEN "closed" ELSE "switch"]
  /\ UNCHANGED <<clients, chanVars, current, sent, sockVars>>

\* `if (done) break;` placed before the switch
InterpretSayDoneFirst(c) ==
  /\ pc[c] = "switch"
  /\ effect[c].type = "say"
  /\ sent' = [sent EXCEPT ![c] = IF done[c] THEN @ ELSE Append(@, effect[c].text)]
  /\ pc' = [pc EXCEPT ![c] = AfterEffect(done[c])]
  /\ UNCHANGED <<clients, chanVars, current, iter, effect, done, fedLog,
                 yielded, sockVars>>

\* case "say" without its `break`, falling through to case "listen"
InterpretSayFallThrough(c) ==
  /\ pc[c] = "switch"
  /\ effect[c].type = "say"
  /\ sent' = [sent EXCEPT ![c] = Append(@, effect[c].text)]
  /\ SetChan(c, Take(Chan(c)))
  /\ pc' = [pc EXCEPT ![c] = "await"]
  /\ UNCHANGED <<clients, putLog, current, iter, effect, done, fedLog,
                 yielded, sockVars>>

\* case "say": sock.send(effect.text)
InterpretSay(c) ==
  /\ pc[c] = "switch"
  /\ effect[c].type = "say"
  /\ sent' = [sent EXCEPT ![c] = Append(@, effect[c].text)]
  /\ pc' = [pc EXCEPT ![c] = AfterEffect(done[c])]
  /\ UNCHANGED <<clients, chanVars, current, iter, effect, done, fedLog,
                 yielded, sockVars>>

\* case "listen" with `incoming.take()` not awaited
InterpretListenNoAwait(c) ==
  /\ pc[c] = "switch"
  /\ effect[c].type = "listen"
  /\ SetChan(c, Take(Chan(c)))
  /\ pc' = [pc EXCEPT ![c] = AfterEffect(done[c])]
  /\ UNCHANGED <<clients, putLog, current, iter, effect, done, sent, fedLog,
                 yielded, sockVars>>

\* case "listen": incoming.take() is called and its promise awaited
InterpretListen(c) ==
  /\ pc[c] = "switch"
  /\ effect[c].type = "listen"
  /\ SetChan(c, Take(Chan(c)))
  /\ pc' = [pc EXCEPT ![c] = "await"]
  /\ UNCHANGED <<clients, putLog, current, iter, effect, done, sent, fedLog,
                 yielded, sockVars>>

\* `await incoming.take()` without the assignment to `current`
ResumeNoAssign(c) ==
  /\ pc[c] = "await"
  /\ ~IsPending(Awaited(c))
  /\ pc' = [pc EXCEPT ![c] = AfterEffect(done[c])]
  /\ UNCHANGED <<clients, chanVars, current, iter, effect, done, sent, fedLog,
                 yielded, sockVars>>

\* `current` declared at module level, shared by every handleWs
ResumeSharedCurrent(c) ==
  /\ pc[c] = "await"
  /\ ~IsPending(Awaited(c))
  /\ current' = [d \in Conns |-> Awaited(c).value]
  /\ pc' = [pc EXCEPT ![c] = AfterEffect(done[c])]
  /\ UNCHANGED <<clients, chanVars, iter, effect, done, sent, fedLog, yielded,
                 sockVars>>

\* the continuation of `current = await incoming.take()`
Resume(c) ==
  /\ pc[c] = "await"
  /\ ~IsPending(Awaited(c))
  /\ current' = [current EXCEPT ![c] = Awaited(c).value]
  /\ pc' = [pc EXCEPT ![c] = AfterEffect(done[c])]
  /\ UNCHANGED <<clients, chanVars, iter, effect, done, sent, fedLog, yielded,
                 sockVars>>

\* a switch with `default: throw`
InterpretOtherThrows(c) ==
  /\ pc[c] = "switch"
  /\ effect[c].type \notin {"say", "listen"}
  /\ pc' = [pc EXCEPT ![c] = "failed"]
  /\ UNCHANGED <<clients, chanVars, current, iter, effect, done, sent, fedLog,
                 yielded, sockVars>>

\* an effect type with no case in the switch
InterpretOther(c) ==
  /\ pc[c] = "switch"
  /\ effect[c].type \notin {"say", "listen"}
  /\ pc' = [pc EXCEPT ![c] = AfterEffect(done[c])]
  /\ UNCHANGED <<clients, chanVars, current, iter, effect, done, sent, fedLog,
                 yielded, sockVars>>

\* case "say" with the exception of sock.send caught and ignored
InterpretSayCatches(c, exits) ==
  /\ pc[c] = "switch"
  /\ effect[c].type = "say"
  /\ sent' = [sent EXCEPT ![c] = Append(@, effect[c].text)]
  /\ sendErrors' = [sendErrors EXCEPT ![c] = @ + 1]
  /\ pc' = [pc EXCEPT ![c] = AfterEffect(done[c])]
  /\ UNCHANGED <<clients, chanVars, current, iter, effect, done, fedLog,
                 yielded, listening, events>>

\* case "say" when sock.send(effect.text) throws.  Nothing in the loop
\* catches, so the exception leaves the loop and rejects the promise of
\* handleWs(sock); its caller dropped that promise, so the rejection is
\* unhandled.  `exits` is what the runtime then does: TRUE when it ends the
\* process on an unhandled rejection (every connection stops), FALSE when
\* it only reports it.
InterpretSayThrows(c, exits) ==
  /\ pc[c] = "switch"
  /\ effect[c].type = "say"
  /\ sent' = [sent EXCEPT ![c] = Append(@, effect[c].text)]
  /\ sendErrors' = [sendErrors EXCEPT ![c] = @ + 1]
  /\ pc' = [d \in Conns |->
             IF d = c THEN "failed" ELSE IF exits THEN "exited" ELSE pc[d]]
  /\ listening' = [d \in Conns |-> IF exits THEN FALSE ELSE listening[d]]
  /\ UNCHANGED <<clients, chanVars, current, iter, effect, done, fedLog,
                 yielded, events>>

Init ==
  /\ clients = {1}
  /\ InitChannels
  /\ InitDrivers
  /\ InitSocks

Next ==
  \/ \E c \in clients, script \in Scripts : HandleWs(c, script)
  \/ \E c \in clients, ev \in SockEvents : ChannelListen(c, ev)
  \/ \E c \in clients, now \in Times : Advance(c, now)
  \/ \E c \in clients : InterpretSay(c)
  \/ \E c \in clients : InterpretListen(c)
  \/ \E c \in clients : Resume(c)
  \/ \E c \in clients : InterpretOther(c)

Spec == Init /\ [][Next]_vars

\* ------------------------------------------------------------------------
\* Two connections running the reference dialog, with failing sends
\* ------------------------------------------------------------------------

\* the text messages each of the two clients types
TwoMsgs(c) ==
  IF c = 1 THEN { <<"s", "u", "m">>, <<"3">>, <<"n", "o">> }
           ELSE { <<"s", "u", "m">>, <<"4">> }

TwoEventCount == Len(events[1]) + Len(events[2])

InitTwo ==
  /\ clients = {1, 2}
  /\ InitChannels
  /\ InitDrivers
  /\ InitSocks

NextTwo ==
  \/ \E c \in clients : HandleWs(c, dialog)
  \/ \E c \in clients : \E m \in TwoMsgs(c) :
       TwoEventCount < MaxTwoEvents /\ ChannelListen(c, TextEvent(m))
  \/ \E c \in clients, now \in Times : Advance(c, now)
  \/ \E c \in clients : InterpretSay(c)
  \/ \E c \in clients, exits \in BOOLEAN : InterpretSayThrows(c, exits)
  \/ \E c \in clients : InterpretListen(c)
  \/ \E c \in clients : Resume(c)

SpecTwo == InitTwo /\ [][NextTwo]_vars

\* ------------------------------------------------------------------------
\* One connection running the reference dialog under the event loop's
\* scheduling: a continuation that is ready to run is run
\* ------------------------------------------------------------------------

\* one turn of the driver of connection c
DriverStep(c) ==
  \/ \E now \in Times : Advance(c, now)
  \/ InterpretSay(c)
  \/ \E exits \in BOOLEAN : InterpretSayThrows(c, exits)
  \/ InterpretListen(c)
  \/ Resume(c)

\* the events of the socket in these runs
MaxLiveEvents == 3

LiveEvents ==
  { TextEvent(<<"T", "i", "m", "e">>), TextEvent(<<"s", "u", "m">>),
    TextEvent(<<"3">>), CloseEvent }

NextLive ==
  \/ \E c \in clients : HandleWs(c, dialog)
  \/ \E c \in clients, ev \in LiveEvents :
       Len(events[c]) < MaxLiveEvents /\ ChannelListen(c, ev)
  \/ \E c \in clients, now \in Times : Advance(c, now)
  \/ \E c \in clients : InterpretSay(c)
  \/ \E c \in clients, exits \in BOOLEAN : InterpretSayThrows(c, exits)
  \/ \E c \in clients : InterpretListen(c)
  \/ \E c \in clients : Resume(c)

\* the event loop runs every ready continuation of handleWs; what the
\* socket delivers, and when, is left to the environment
SpecLive ==
  /\ Init
  /\ [][NextLive]_vars
  /\ \A c \in Conns : WF_vars(DriverStep(c))

\* ------------------------------------------------------------------------
\* The reference script stepped by hand: two generator objects of dialog()
\* resumed side by side with the same inputs, each at its own clock reading
\* ------------------------------------------------------------------------

\* the number of next() calls made on each instance
MaxSteps == 10

\* the messages fed to the script
DialogMsgs ==
  { <<"T", "i", "m", "e">>,
    <<"s", "u", "m">>,
    <<"S", "U", "M", " ", "t", "i", "m", "e">>,
    <<"3">>,
    <<"4">>,
    <<"n", "o">>,
    <<>> }

\* the clock reading of the instance resumed first
FirstReading == "10:00:00"

InitDialog ==
  /\ clients = {1, 2}
  /\ InitChannels
  /\ InitDrivers
  /\ InitSocks

\* iter.next(input) on both instances
DialogStep(input, now1, now2) ==
  /\ Len(fedLog[1]) < MaxSteps
  /\ LET r == [c \in Conns |->
                 dialogNext(iter[c], input, IF c = 1 THEN now1 ELSE now2)]
     IN  /\ iter' = [c \in Conns |-> r[c].iter]
         /\ effect' = [c \in Conns |-> r[c].value]
         /\ done' = [c \in Conns |-> r[c].done]
         /\ current' = [c \in Conns |-> input]
         /\ fedLog' = [c \in Conns |->
                         Append(fedLog[c], [input |-> input,
                                            after |-> effect[c].type])]
         /\ yielded' = [c \in Conns |-> Append(yielded[c], r[c].value)]
  /\ UNCHANGED <<clients, chanVars, pc, sent, sockVars>>

\* after a listen effect the instances are resumed with a message
DialogFeed(message, now1, now2) ==
  /\ effect[1] = listen
  /\ DialogStep(message, now1, now2)

\* after any other effect they are resumed with the value fed before
DialogResume ==
  /\ effect[1] # listen
  /\ DialogStep(current[1], FirstReading, FirstReading)

\* instance 1 is resumed first, instance 2 within the same second or in
\* the next one
NextDialog ==
  \/ \E message \in DialogMsgs : \E now2 \in Times :
       DialogFeed(message, FirstReading, now2)
  \/ DialogResume

SpecDialog == InitDialog /\ [][NextDialog]_vars

\* ------------------------------------------------------------------------
\* Properties of the Channel (checked under SpecChannel)
\* ------------------------------------------------------------------------

IsPrefix(s, t) == Len(s) <= Len(t) /\ SubSeq(t, 1, Len(s)) = s

\* the values callTakers handed to takers, in the order it handed them
Delivered(c) == [k \in 1..Len(resolveLog[c]) |-> resolveLog[c][k][2]]

\* the promises of connection c that are still pending
PendingTakes(c) == {n \in 1..Len(results[c]) : IsPending(results[c][n])}

\* C1: the Nth take() call resolves with the Nth value put; takes are
\* resolved in request order and the Kth resolution carries the Kth value put
C1_FifoPairing ==
  \A c \in clients :
    /\ \A n \in 1..Len(results[c]) :
         ~IsPending(results[c][n]) =>
           /\ n <= Len(putLog[c])
           /\ results[c][n].value = putLog[c][n]
    /\ \A k \in 1..Len(resolveLog[c]) :
         resolveLog[c][k] = <<k, putLog[c][k]>>

\* three takes were requested before the values arrived, two different
\* values have been handed out and the third take still waits
C1_Witness ==
  /\ Len(resolveLog[1]) = 2
  /\ resolveLog[1][1][2] # resolveLog[1][2][2]
  /\ takers[1] = <<3>>

\* C2: every value put is either still buffered or was handed to exactly one
\* take, once: the values put are the values delivered followed by the
\* buffer, no promise is resolved twice, and every resolved promise was
\* resolved by one delivery
C2_ExactlyOnce ==
  \A c \in clients :
    /\ putLog[c] = Delivered(c) \o buffer[c]
    /\ \A j, k \in 1..Len(resolveLog[c]) :
         j # k => resolveLog[c][j][1] # resolveLog[c][k][1]
    /\ Cardinality({n \in 1..Len(results[c]) : ~IsPending(results[c][n])})
         = Len(resolveLog[c])

\* the same value was put twice and more; two were delivered, one is buffered
C2_Witness ==
  /\ Len(putLog[1]) = 3
  /\ putLog[1][1] = putLog[1][2]
  /\ Len(resolveLog[1]) = 2
  /\ Len(buffer[1]) = 1

\* C3: the pending takes and the buffer are never both non-empty
C3_NotBothNonEmpty ==
  \A c \in clients : ~(Len(takers[c]) > 0 /\ Len(buffer[c]) > 0)

\* puts outran the takes, a take arrived and drained the oldest value
C3_Witness ==
  /\ Len(resolveLog[1]) = 1
  /\ Len(buffer[1]) = 2
  /\ takers[1] = <<>>

\* the step is a put of v on connection c
IsPut(c) == Len(putLog'[c]) = Len(putLog[c]) + 1

\* C4: put is always possible and completes in its own step; with a take
\* pending it resolves the oldest one with the value, leaves the buffer
\* empty and the other pending takes in order; with none pending it appends
\* the value to the buffer and resolves nothing
C4_PutEffect ==
  /\ [](\A c \in clients, v \in Vals :
          OpCount(c) < MaxOps => ENABLED ChPut(c, v))
  /\ [][\A c \in clients :
          IsPut(c) =>
            LET v == putLog'[c][Len(putLog'[c])]
            IN  IF Len(takers[c]) > 0
                  THEN /\ results'[c] =
                            [results[c] EXCEPT
                               ![Head(takers[c])] = ResolvedPromise(v)]
                       /\ resolveLog'[c] =
                            Append(resolveLog[c], <<Head(takers[c]), v>>)
                       /\ takers'[c] = Tail(takers[c])
                       /\ buffer'[c] = <<>>
                  ELSE /\ buffer'[c] = Append(buffer[c], v)
                       /\ takers'[c] = takers[c]
                       /\ results'[c] = results[c]
                       /\ resolveLog'[c] = resolveLog[c]]_vars

\* a put has resolved the oldest of three pending takes
C4_Witness ==
  /\ Len(putLog[1]) = 1
  /\ takers[1] = <<2, 3>>
  /\ ~IsPending(results[1][1])

\* ------------------------------------------------------------------------
\* Properties of the driver (checked under Spec)
\* ------------------------------------------------------------------------

IsTextEvent(ev) == ev.kind = "text"

\* the text messages the socket produced, in order
TextsOf(evs) ==
  LET texts == SelectSeq(evs, IsTextEvent)
  IN  [k \in 1..Len(texts) |-> texts[k].data]

AfterListen(entry) == entry.after = "listen"

\* the values passed to iter.next right after a listen effect
Heard(c) ==
  LET fed == SelectSeq(fedLog[c], AfterListen)
  IN  [k \in 1..Len(fed) |-> fed[k].input]

IsSay(e) == e.type = "say"

\* the texts of the say effects in a sequence of effects
SayTexts(effs) ==
  LET says == SelectSeq(effs, IsSay)
  IN  [k \in 1..Len(says) |-> says[k].text]

\* the step advances the script of connection c
IsAdvance(c) == Len(fedLog'[c]) = Len(fedLog[c]) + 1

\* C5: the values fed to the script at its listen suspension points are a
\* prefix of the text messages the socket produced
C5_InboundOrder ==
  \A c \in clients : IsPrefix(Heard(c), TextsOf(events[c]))

\* two different messages reached the script around a binary frame
C5_Witness ==
  /\ Len(Heard(1)) = 2
  /\ Heard(1)[1] # Heard(1)[2]
  /\ \E k \in 1..Len(events[1]) : events[1][k] = BinaryEvent

\* C6: the texts passed to sock.send are the texts of the say effects the
\* script produced, in order; only a say that was just produced and is
\* about to be interpreted is not sent yet
C6_OutboundOrder ==
  \A c \in clients :
    IF pc[c] = "switch" /\ effect[c].type = "say"
      THEN Append(sent[c], effect[c].text) = SayTexts(yielded[c])
      ELSE sent[c] = SayTexts(yielded[c])

\* a script's says were sent in order, one text twice, the last with done
C6_Witness ==
  \/ sent[1] = <<"a", "b", "a">>
  \/ (sent[1] = <<"c">> /\ done[1])

\* C7: at most one take is pending on a connection's channel, only while the
\* driver is suspended on it, and the script is not advanced while a take is
\* pending
C7_OneEffectAtATime ==
  /\ [](\A c \in clients :
          /\ Len(takers[c]) <= 1
          /\ Cardinality(PendingTakes(c)) <= 1
          /\ PendingTakes(c) # {} =>
               pc[c] = "await" /\ PendingTakes(c) = {Len(results[c])})
  /\ [][\A c \in clients :
          IsAdvance(c) => PendingTakes(c) = {} /\ takers[c] = <<>>]_vars

\* the driver waits on its second take after the first was resolved
C7_Witness ==
  /\ pc[1] = "await"
  /\ takers[1] = <<2>>
  /\ ~IsPending(results[1][1])

\* C8: the first advance passes the empty string; after a listen effect the
\* driver does not move while the take is pending, and the next advance
\* passes the value the take resolved with
C8_FeedBack ==
  [][\A c \in clients :
       /\ IsAdvance(c) =>
            LET entry == fedLog'[c][Len(fedLog'[c])]
            IN  /\ Len(fedLog[c]) = 0 => entry.input = EmptyString
                /\ effect[c].type = "listen" =>
                     /\ Len(results[c]) > 0
                     /\ ~IsPending(Awaited(c))
                     /\ entry.input = Awaited(c).value
       /\ (pc[c] = "await" /\ IsPending(Awaited(c))) =>
            /\ pc'[c] = "await"
            /\ fedLog'[c] = fedLog[c]
            /\ current'[c] = current[c]]_vars

\* the script was advanced with a message after its second listen
C8_Witness ==
  /\ Len(fedLog[1]) >= 4
  /\ fedLog[1][1].input = EmptyString
  /\ Len(Heard(1)) = 2
  /\ Heard(1)[2] \in Msgs

\* C9: interpreting a say sends its text and nothing else: no take, channel
\* and `current` unchanged, script not touched, and the driver is back at
\* the top of the loop (or past it when done), where the next advance needs
\* no inbound message
C9_SayFrame ==
  /\ [][\A c \in clients :
          (pc[c] = "switch" /\ effect[c].type = "say" /\ pc'[c] # "switch") =>
            /\ sent'[c] = Append(sent[c], effect[c].text)
            /\ takers'[c] = takers[c]
            /\ buffer'[c] = buffer[c]
            /\ results'[c] = results[c]
            /\ current'[c] = current[c]
            /\ iter'[c] = iter[c]
            /\ fedLog'[c] = fedLog[c]
            /\ pc'[c] = IF done[c] THEN "closed" ELSE "next"]_vars
  /\ [](\A c \in clients :
          pc[c] = "next" => ENABLED (\E now \in Times : Advance(c, now)))

\* a say was interpreted while an unread message sat in the buffer
C9_Witness ==
  /\ pc[1] = "next"
  /\ effect[1].type = "say"
  /\ Len(sent[1]) >= 2
  /\ Len(buffer[1]) = 1

\* C10: the loop ends when an advance yields no effect; an effect that comes
\* with done is interpreted (sent, or taken from the channel) and then the
\* loop ends; after the loop the driver advances, sends and takes nothing
C10_Termination ==
  [][\A c \in clients :
       /\ (IsAdvance(c) /\ effect'[c] = undefined) => pc'[c] = "closed"
       /\ (pc[c] # "closed" /\ pc'[c] = "closed") =>
            \/ pc[c] = "next" /\ IsAdvance(c) /\ effect'[c] = undefined
            \/ /\ pc[c] = "switch" /\ done[c]
               /\ effect[c].type # "listen"
               /\ effect[c].type = "say" =>
                    sent'[c] = Append(sent[c], effect[c].text)
            \/ /\ pc[c] = "await" /\ done[c]
               /\ ~IsPending(Awaited(c))
               /\ current'[c] = Awaited(c).value
       /\ (pc[c] = "switch" /\ done[c] /\ effect[c].type = "listen"
             /\ pc'[c] # "switch") =>
            pc'[c] = "await" /\ Len(results'[c]) = Len(results[c]) + 1
       /\ (pc[c] \in {"switch", "await"} /\ done[c]
             /\ pc'[c] \notin {pc[c], "await"}) =>
            pc'[c] = "closed"
       /\ pc[c] = "closed" =>
            /\ pc'[c] = "closed"
            /\ iter'[c] = iter[c]
            /\ fedLog'[c] = fedLog[c]
            /\ sent'[c] = sent[c]
            /\ Len(results'[c]) = Len(results[c])
            /\ current'[c] = current[c]]_vars

\* the loop has ended after sending the effect that came with done, and a
\* message that arrived afterwards stays in the buffer
C10_Witness ==
  /\ pc[1] = "closed"
  /\ done[1]
  /\ effect[1] = say("c")
  /\ sent[1] = <<"c">>
  /\ Len(buffer[1]) = 1

\* C12: an effect that is neither say nor listen is skipped: nothing is
\* sent, no take is issued, the driver does not suspend, `current` and the
\* channel stay as they are, and the loop goes on to the next iter.next (or
\* ends, when the effect came with done)
C12_UnknownEffect ==
  /\ [][\A c \in clients :
          (pc[c] = "switch" /\ effect[c].type \notin {"say", "listen"}
             /\ pc'[c] # "switch") =>
            /\ sent'[c] = sent[c]
            /\ takers'[c] = takers[c]
            /\ buffer'[c] = buffer[c]
            /\ results'[c] = results[c]
            /\ current'[c] = current[c]
            /\ iter'[c] = iter[c]
            /\ fedLog'[c] = fedLog[c]
            /\ pc'[c] = IF done[c] THEN "closed" ELSE "next"]_vars
  /\ [](\A c \in clients :
          (pc[c] = "next" /\ effect[c] = otherEffect) =>
            ENABLED (\E now \in Times : Advance(c, now)))

\* an unknown effect was skipped with a message waiting in the buffer, and
\* the script went on to its next effect
C12_Witness ==
  /\ yielded[1] = <<otherEffect, say("b")>>
  /\ Len(fedLog[1]) = 2
  /\ sent[1] = <<>>
  /\ Len(buffer[1]) = 1
  /\ results[1] = <<>>

IsCloseEvent(ev) == ev.kind = "close"

\* C15: the forwarding task puts every text frame once, in arrival order,
\* puts nothing for other frames, and ends with the closure of the socket:
\* the values put are the texts among the events up to the closure
C15_Forwarding ==
  /\ [](\A c \in clients :
          /\ putLog[c] = TextsOf(events[c])
          /\ \A k \in 1..Len(events[c]) :
               IsCloseEvent(events[c][k]) => k = Len(events[c])
          /\ listening[c] <=>
               (pc[c] # "idle" /\ SelectSeq(events[c], IsCloseEvent) = <<>>))
  /\ [][\A c \in clients :
          SelectSeq(events[c], IsCloseEvent) # <<>> =>
            putLog'[c] = putLog[c] /\ events'[c] = events[c]]_vars

\* a text frame was put, a binary frame was not, the socket closed
C15_Witness ==
  /\ Len(events[1]) = 3
  /\ events[1][2] = BinaryEvent
  /\ events[1][3] = CloseEvent
  /\ Len(putLog[1]) = 1
  /\ ~listening[1]

\* ------------------------------------------------------------------------
\* Failing sends and two connections (checked under SpecTwo)
\* ------------------------------------------------------------------------

\* everything handleWs(c) can change stays as it is
DriverFrozen(c) ==
  /\ iter'[c] = iter[c]
  /\ fedLog'[c] = fedLog[c]
  /\ yielded'[c] = yielded[c]
  /\ sent'[c] = sent[c]
  /\ current'[c] = current[c]
  /\ Len(results'[c]) = Len(results[c])

\* C11: when sock.send throws while a say is interpreted, the loop of that
\* connection ends with the exception: from then on the script is not
\* advanced, no effect is interpreted, nothing is sent and no take is issued
C11_SendFailure ==
  [][\A c \in clients :
       /\ sendErrors'[c] > sendErrors[c] =>
            /\ pc'[c] = "failed"
            /\ iter'[c] = iter[c]
            /\ fedLog'[c] = fedLog[c]
            /\ current'[c] = current[c]
            /\ Len(results'[c]) = Len(results[c])
       /\ sendErrors[c] > 0 =>
            /\ pc[c] \in {"failed", "exited"}
            /\ pc'[c] \in {"failed", "exited"}
            /\ sendErrors'[c] = sendErrors[c]
            /\ DriverFrozen(c)]_vars

\* a reply could not be sent; the forwarding task still runs and has
\* buffered a message that no take will ever fetch
C11_Witness ==
  /\ pc[1] = "failed"
  /\ sendErrors[1] = 1
  /\ Len(sent[1]) = 2
  /\ listening[1]
  /\ Len(buffer[1]) = 1

\* nothing of connection d changes in this step
ConnUnchanged(d) ==
  /\ pc'[d] = pc[d]
  /\ listening'[d] = listening[d]
  /\ takers'[d] = takers[d]
  /\ buffer'[d] = buffer[d]
  /\ results'[d] = results[d]
  /\ events'[d] = events[d]
  /\ DriverFrozen(d)

\* C13: a send failure on one connection changes nothing of any other
\* connection, whose driver and forwarding task keep running
C13_ErrorIsolation ==
  [][\A c, d \in clients :
       (c # d /\ sendErrors'[c] > sendErrors[c]) => ConnUnchanged(d)]_vars

RECURSIVE AloneSends(_, _, _, _, _)
\* `texts` is a beginning of what a dialog in state `it`, holding `cur` as
\* its driver's current, sends when driven alone with the messages of
\* `msgs` from the jth on, for some readings of the clock
AloneSends(msgs, texts, it, cur, j) ==
  IF texts = <<>> THEN TRUE
  ELSE LET r == dialogNext(it, cur, CHOOSE now \in Times : TRUE)
       IN  IF r.value.type = "say"
             THEN /\ \E now \in Times :
                       dialogNext(it, cur, now).value.text = Head(texts)
                  /\ AloneSends(msgs, Tail(texts), r.iter, cur, j)
             ELSE /\ j <= Len(msgs)
                  /\ AloneSends(msgs, texts, r.iter, msgs[j], j + 1)

\* C14: the script of a connection is fed only messages of its own socket,
\* in order, and what a connection sends is what its dialog sends when it
\* runs alone on the messages of its own socket
C14_Isolation ==
  \A c \in clients :
    /\ IsPrefix(Heard(c), TextsOf(events[c]))
    /\ AloneSends(TextsOf(events[c]), sent[c], dialog, EmptyString, 1)

\* both connections are in a sum sub-dialogue, with different totals
C14_Witness ==
  /\ iter[1].at = "gotIt" /\ iter[1].result = 3
  /\ iter[2].at = "gotIt" /\ iter[2].result = 4
  /\ sent[1][Len(sent[1])] = "Got it!"
  /\ sent[2][Len(sent[2])] = "Got it!"

\* ------------------------------------------------------------------------
\* The reference script (checked under SpecDialog)
\* ------------------------------------------------------------------------

\* the value the step feeds to the script of connection c
FedInput(c) == fedLog'[c][Len(fedLog'[c])].input

\* C16: two instances of dialog resumed side by side with the same inputs
\* yield the same effects at every step, say texts included
C16_Determinism ==
  Heard(1) = Heard(2) => yielded[1] = yielded[2]

\* what the outer loop is to do with each message of DialogMsgs
OuterOutcome(m) ==
  CASE m = <<"T", "i", "m", "e">> -> "time"
    [] m = <<"S", "U", "M", " ", "t", "i", "m", "e">> -> "time"
    [] m = <<"s", "u", "m">> -> "sum"
    [] OTHER -> "fallback"

AskText == "Okay, what numbers should we sum?"

\* C17: a message received by the outer loop gets exactly one outcome: the
\* time reply if it contains "time" in any case, else the sum sub-dialogue
\* if it contains "sum", else the fallback say; after a time reply or the
\* fallback the script listens again
C17_Precedence ==
  [][\A c \in clients :
       IsAdvance(c) =>
         /\ iter[c].at = "listen" =>
              /\ yielded'[c] = Append(yielded[c], effect'[c])
              /\ CASE OuterOutcome(FedInput(c)) = "time" ->
                        /\ effect'[c] \in {say("It is " \o t) : t \in Times}
                        /\ iter'[c].at = "replied"
                   [] OuterOutcome(FedInput(c)) = "sum" ->
                        /\ effect'[c] = say(AskText)
                        /\ iter'[c].at = "sumAsk"
                   [] OTHER ->
                        /\ effect'[c] = say("I don't know what to say!")
                        /\ iter'[c].at = "replied"
         /\ iter[c].at = "replied" =>
              effect'[c] = listen /\ iter'[c].at = "listen"]_vars

\* a message with both words, in mixed case, got the time reply and the
\* script is listening again in the outer loop
C17_Witness ==
  /\ Len(fedLog[2]) = 4
  /\ fedLog[2][3].input = <<"S", "U", "M", " ", "t", "i", "m", "e">>
  /\ yielded[2][3] = say("It is 10:00:01")
  /\ yielded[2][4] = listen
  /\ iter[2].at = "listen"

\* the tokens of DialogMsgs that Number() converts to a number (the empty
\* string converts to 0), and their values
IsNumericToken(m) == m \in { <<"3">>, <<"4">>, <<>> }

TokenValue(m) ==
  CASE m = <<"3">> -> 3
    [] m = <<"4">> -> 4
    [] OTHER -> 0

\* the step at which the last sum sub-dialogue was delegated to
LastAsk(c) ==
  CHOOSE k \in 1..Len(yielded[c]) :
    /\ yielded[c][k] = say(AskText)
    /\ \A j \in (k + 1)..Len(yielded[c]) : yielded[c][j] # say(AskText)

RECURSIVE SumTokens(_, _)
SumTokens(log, from) ==
  IF from > Len(log) THEN 0
  ELSE (IF log[from].after = "listen" THEN TokenValue(log[from].input) ELSE 0)
         + SumTokens(log, from + 1)

\* the sum of the tokens received since the delegation, without the
\* message that triggered it
TotalSince(c) == SumTokens(fedLog[c], LastAsk(c) + 1)

C19_CompletionValue ==
  [][\A c \in clients :
       (IsAdvance(c) /\ iter[c].at = "sumResult") =>
         iter'[c].delegated = NumberValue(iter[c].result)]_vars

\* C19, amended: the total is surfaced as the text of the say effect "The
\* result is: <total>"; the sub-script completes with the value undefined,
\* which the parent drops, and the parent goes on to listen
C19_TotalInSay ==
  /\ [](\A c \in clients :
          iter[c].at = "sumResult" =>
            effect[c] = say("The result is: " \o ToString(iter[c].result)))
  /\ [][\A c \in clients :
          (IsAdvance(c) /\ iter[c].at = "sumResult") =>
            /\ iter'[c].delegated = undefined
            /\ iter'[c].result = iter[c].result
            /\ effect'[c] = listen]_vars

\* a sub-dialogue with total 3 has ended and the parent listens again
C19_Witness ==
  /\ Len(yielded[1]) = 8
  /\ yielded[1][7] = say("The result is: 3")
  /\ yielded[1][8] = listen
  /\ iter[1].at = "listen"
  /\ iter[1].delegated = undefined

\* C20: the token that ends a sum sub-dialogue is not dispatched by the
\* outer loop: whatever it contains, the effect after "The result is: ..."
\* is the outer loop's listen, and nothing else is yielded for it; a later
\* sub-dialogue starts its total from 0
C20_TokenConsumed ==
  /\ [][\A c \in clients :
          (IsAdvance(c) /\ iter[c].at = "sumResult") =>
            /\ FedInput(c) = current[c]
            /\ effect'[c] = listen
            /\ iter'[c].at = "listen"
            /\ yielded'[c] = Append(yielded[c], listen)]_vars
  /\ [](\A c \in clients :
          (iter[c].at = "sumListen" /\ effect[c] = listen
             /\ yielded[c][Len(yielded[c]) - 1] = say(AskText)) =>
            /\ iter[c].result = 0
            /\ TotalSince(c) = 0)

\* "Time" ended a sub-dialogue with total 3 and got no time reply; the next
\* message started a new sub-dialogue, whose total is 0
C20_Witness ==
  /\ Len(yielded[1]) = 10
  /\ Heard(1) = << <<"s", "u", "m">>, <<"3">>, <<"T", "i", "m", "e">>,
                   <<"s", "u", "m">> >>
  /\ yielded[1][7] = say("The result is: 3")
  /\ yielded[1][8] = listen
  /\ yielded[1][9] = say(AskText)
  /\ iter[1].at = "sumListen"
  /\ iter[1].result = 0

\* ------------------------------------------------------------------------
\* Suspension, alternation and progress
\* ------------------------------------------------------------------------

\* the driver of connection c waits for a take() that is not resolved
Suspended(c) == pc[c] = "await" /\ IsPending(Awaited(c))

\* C21: a driver suspended on take() stays suspended as long as nothing is
\* put: its script is not advanced, nothing is sent and the loop does not
\* end; once the forwarding task has stopped this holds for ever; while
\* suspended the buffer is empty and no step of the driver is possible
C21_SuspendedForever ==
  /\ [][\A c \in clients :
          (Suspended(c) /\ putLog'[c] = putLog[c]) =>
            /\ Suspended(c)'
            /\ sent'[c] = sent[c]
            /\ fedLog'[c] = fedLog[c]
            /\ iter'[c] = iter[c]
            /\ current'[c] = current[c]]_vars
  /\ [][\A c \in clients :
          (Suspended(c) /\ ~listening[c]) =>
            /\ Suspended(c)'
            /\ ~listening'[c]
            /\ sent'[c] = sent[c]
            /\ fedLog'[c] = fedLog[c]
            /\ iter'[c] = iter[c]]_vars
  /\ [](\A c \in clients :
          Suspended(c) =>
            /\ buffer[c] = <<>>
            /\ ~ENABLED (\/ Resume(c)
                         \/ \E now \in Times : Advance(c, now)
                         \/ InterpretSay(c)
                         \/ InterpretListen(c)
                         \/ InterpretOther(c)))

\* the socket closed after one message was answered, while dialog waits
\* for the next one
C21_Witness ==
  /\ Suspended(1)
  /\ ~listening[1]
  /\ iter[1] = [dialog EXCEPT !.at = "listen"]
  /\ Len(events[1]) = 2
  /\ events[1][2] = CloseEvent
  /\ Len(sent[1]) = 2
  /\ Len(Heard(1)) = 1

\* the connection runs the reference script
RunsDialog(c) == pc[c] # "idle" /\ iter[c].kind = "dialog"

\* C22: the effects of dialog alternate say, listen, say, listen, ...,
\* beginning with the welcome say yielded on the first advance, fed the
\* initial ""; dialog never completes; so whenever its driver waits on
\* take() it has sent one message more than it has consumed
C22_Alternation ==
  \A c \in clients :
    RunsDialog(c) =>
      /\ \A k \in 1..Len(yielded[c]) :
           yielded[c][k].type = IF k % 2 = 1 THEN "say" ELSE "listen"
      /\ Len(yielded[c]) >= 1 =>
           /\ yielded[c][1] = say("Welcome to \"Do what I say BOT\"")
           /\ fedLog[c][1].input = EmptyString
      /\ Len(yielded[c]) = Len(fedLog[c])
      /\ ~done[c]
      /\ pc[c] # "closed"
      /\ pc[c] = "await" => Len(sent[c]) = Len(Heard(c)) + 1

\* dialog went through a whole sum sub-dialogue and waits for its fourth
\* message, having sent four
C22_Witness ==
  /\ RunsDialog(1)
  /\ pc[1] = "await"
  /\ Len(Heard(1)) = 3
  /\ Len(sent[1]) = 4
  /\ sent[1][4] = "The result is: 3"
  /\ Len(yielded[1]) = 8

\* C23: once the k-th text message of a connection has been delivered, it
\* is eventually fed to dialog and answered (k + 1 messages sent, with the
\* welcome), unless a send fails; and a driver waiting on take() with a
\* message in the buffer has its take resolved, so that it can go on
C23_Progress ==
  /\ \A c \in Conns : \A k \in 1..MaxLiveEvents :
       (c \in clients /\ Len(putLog[c]) >= k) ~>
         \/ sendErrors[c] > 0
         \/ /\ Len(Heard(c)) >= k
            /\ Heard(c)[k] = putLog[c][k]
            /\ Len(sent[c]) >= k + 1
  /\ [](\A c \in clients :
          (pc[c] = "await" /\ buffer[c] # <<>>) =>
            ~IsPending(Awaited(c)) /\ ENABLED Resume(c))
  /\ \A c \in Conns :
       (c \in clients /\ pc[c] = "await" /\ buffer[c] # <<>>) ~>
         (pc[c] # "await")

\* three messages were delivered, fed and answered without a failed send
C23_Witness ==
  /\ Len(putLog[1]) = 3
  /\ Heard(1) = putLog[1]
  /\ Len(sent[1]) = 4
  /\ sendErrors[1] = 0
  /\ pc[1] = "await"

====
